---- MODULE Spec2Model ----
(***************************************************************************)
(* Model of the traceability agent: candidate pairing, the seven dimension *)
(* scorers, the edge judge and the coverage aggregator (pairing.py,        *)
(* text_utils.py), and the stages of run_pipeline in front of them         *)
(* (normalisation.py, story_parser.py, io_utils.py).                       *)
(*                                                                         *)
(* A text is a sequence of words (the string is the words joined by single *)
(* blanks); a word is a string of letters and digits.                      *)
(***************************************************************************)
EXTENDS Integers, Sequences, FiniteSets, TLC

VARIABLES problems, stories, config, pairs, edges, summaries, pc, clock, run, prev_edges, prev_summaries

vars == <<problems, stories, config, pairs, edges, summaries, pc, clock, run, prev_edges, prev_summaries>>

(***************************************************************************)
(* Bounds of the model.                                                    *)
(***************************************************************************)
MaxProblems == 2

MaxStories == 2

(***************************************************************************)
(* text_utils.py                                                           *)
(***************************************************************************)
STOPWORDS ==
    {"a", "an", "the", "and", "or", "to", "of", "in", "for", "on", "with", "by", "at",
     "from", "that", "this", "it", "is", "are", "be", "as", "so", "we", "i", "can",
     "will", "our", "their", "not", "into", "about", "when", "then", "if", "but",
     "because", "due", "has", "have", "had"}

\* str.lower() on a word: the words of the model that carry capitals.
Lower(w) ==
    CASE w = "Data" -> "data"
      [] w = "Analyst" -> "analyst"
      [] w = "Audit" -> "audit"
      [] w = "The" -> "the"
      [] w = "Policy" -> "policy"
      [] w = "Stakeholder" -> "stakeholder"
      [] OTHER -> w

\* TOKEN_PATTERN.findall(text): a word of letters and digits is one token when
\* it has at least two characters, and yields no token otherwise.
TOKEN_PATTERN_findall(text) == SelectSeq(text, LAMBDA w : Len(w) >= 2)

Range(s) == {s[i] : i \in DOMAIN s}

keyword_set(text) ==
    {Lower(t) : t \in Range(TOKEN_PATTERN_findall(text))} \ STOPWORDS

\* normalise_text(text).split(): the lowercased words.
normalise_text(text) == [i \in DOMAIN text |-> Lower(text[i])]

\* jaccard_similarity(a, b) as the fraction <<numerator, denominator>>.
jaccard_similarity(a, b) ==
    IF a = {} /\ b = {} THEN <<1, 1>>
    ELSE IF a = {} \/ b = {} THEN <<0, 1>>
    ELSE <<Cardinality(a \cap b), Cardinality(a \cup b)>>

\* cosine_overlap(a, b) = n / sqrt(d), kept as <<n, d>>; <<0, 1>> is 0.0.
cosine_overlap(a, b) ==
    IF a = {} \/ b = {} THEN <<0, 1>>
    ELSE <<Cardinality(a \cap b), Cardinality(a) * Cardinality(b)>>

\* n/d >= num/den for a fraction <<n, d>> with d > 0.
FracGeq(f, num, den) == f[1] * den >= num * f[2]

\* n/d <= num/den for a fraction <<n, d>> with d > 0.
FracLeq(f, num, den) == f[1] * den <= num * f[2]

\* n/sqrt(d) >= num/den, for n >= 0 and d > 0.
RootFracGeq(f, num, den) == f[1] * f[1] * den * den >= num * num * f[2]

(***************************************************************************)
(* pairing.py: configuration                                               *)
(***************************************************************************)
ESSENTIAL_FACETS == <<"capability", "causal_root", "value">>

FACETS == <<"persona", "capability", "causal_root", "value", "governance", "granularity_compatible">>

DefaultHighConfidence == 12

DefaultMediumConfidence == 8

DefaultBorderlineLow == 8

DefaultBorderlineHigh == 11

ThresholdConfig ==
    [high_confidence |-> DefaultHighConfidence,
     medium_confidence |-> DefaultMediumConfidence,
     borderline_band |-> <<DefaultBorderlineLow, DefaultBorderlineHigh>>]

DefaultGovernanceTerms ==
    <<"policy", "governance", "audit", "lineage", "approval", "control", "compliance">>

AgentConfig == [threshold |-> ThresholdConfig, governance_terms |-> DefaultGovernanceTerms]

(***************************************************************************)
(* pairing.py: the seven dimension scorers                                 *)
(***************************************************************************)
role_tokens(role) == Range(normalise_text(role))

persona_alignment(problem, story) ==
    LET prob_tokens == role_tokens(problem.persona)
        story_tokens == role_tokens(story.persona)
    IN  IF prob_tokens = {} \/ story_tokens = {} THEN 0
        ELSE IF prob_tokens = story_tokens \/ prob_tokens \subseteq story_tokens
                \/ story_tokens \subseteq prob_tokens THEN 2
        ELSE IF prob_tokens \cap story_tokens # {} THEN 1
        ELSE 0

capability_alignment(problem, story) ==
    LET problem_terms == keyword_set(problem.desired_outcome \o problem.barrier)
        cap_terms == keyword_set(story.capability)
        story_terms == IF cap_terms = {} THEN keyword_set(story.raw_text) ELSE cap_terms
        overlap == cosine_overlap(problem_terms, story_terms)
    IN  IF RootFracGeq(overlap, 1, 2) THEN 2
        ELSE IF RootFracGeq(overlap, 1, 5) THEN 1
        ELSE 0

\* Mutant: the upper threshold is exclusive.
causal_coverage_strict(problem, story) ==
    LET barrier_terms == keyword_set(problem.barrier)
        capability_terms == keyword_set(story.capability)
        overlap == jaccard_similarity(barrier_terms, capability_terms)
    IN  IF barrier_terms = {} \/ capability_terms = {} THEN 0
        ELSE IF FracGeq(overlap, 2, 5) /\ ~FracLeq(overlap, 2, 5) THEN 2
        ELSE IF FracGeq(overlap, 1, 5) THEN 1
        ELSE 0

causal_coverage(problem, story) ==
    LET barrier_terms == keyword_set(problem.barrier)
        capability_terms == keyword_set(story.capability)
        overlap == jaccard_similarity(barrier_terms, capability_terms)
    IN  IF barrier_terms = {} \/ capability_terms = {} THEN 0
        ELSE IF FracGeq(overlap, 2, 5) THEN 2
        ELSE IF FracGeq(overlap, 1, 5) THEN 1
        ELSE 0

granularity_fit(problem, story) ==
    LET problem_length == Len(problem.desired_outcome) + Len(problem.barrier)
        story_length == Len(story.capability)
        ratio == <<problem_length, story_length>>
    IN  IF story_length = 0 THEN 0
        ELSE IF FracGeq(ratio, 1, 2) /\ FracLeq(ratio, 3, 2) THEN 2
        ELSE IF FracGeq(ratio, 3, 10) /\ FracLeq(ratio, 2, 1) THEN 1
        ELSE 0

value_alignment(problem, story) ==
    LET problem_terms == keyword_set(problem.value_intent)
        story_terms == keyword_set(story.business_value)
        overlap == jaccard_similarity(problem_terms, story_terms)
    IN  IF FracGeq(overlap, 2, 5) THEN 2
        ELSE IF FracGeq(overlap, 1, 5) THEN 1
        ELSE 0

governance_alignment(problem, story, cfg) ==
    LET problem_terms == keyword_set(problem.barrier \o problem.value_intent)
        story_terms == keyword_set(story.raw_text)
        strong_terms == Range(cfg.governance_terms)
    IN  IF (story.governance_signal = 2 \/ problem_terms \cap strong_terms # {})
           /\ (story.governance_signal >= 1 \/ story_terms \cap strong_terms # {}) THEN 2
        ELSE IF story.governance_signal >= 1 \/ problem_terms \cap story_terms # {} THEN 1
        ELSE 0

Max2(a, b) == IF a >= b THEN a ELSE b

Min2(a, b) == IF a <= b THEN a ELSE b

evidence_transfer(problem) == Max2(0, Min2(problem.evidence_strength, 2))

(***************************************************************************)
(* pairing.py: the edge judge                                              *)
(***************************************************************************)
\* Mutant: causal_root is granted on a partial causal score.
compute_facet_flags_weak_causal(scores) ==
    [persona |-> scores.persona_alignment = 2,
     capability |-> scores.capability_alignment >= 1,
     causal_root |-> scores.causal_coverage >= 1,
     value |-> scores.value_alignment >= 1,
     governance |-> scores.governance_alignment >= 1,
     granularity_compatible |-> scores.granularity_fit >= 1]

compute_facet_flags(scores) ==
    [persona |-> scores.persona_alignment = 2,
     capability |-> scores.capability_alignment >= 1,
     causal_root |-> scores.causal_coverage = 2,
     value |-> scores.value_alignment >= 1,
     governance |-> scores.governance_alignment >= 1,
     granularity_compatible |-> scores.granularity_fit >= 1]

\* Mutant: the evidence downgrade is missing.
confidence_band_no_downgrade(total_score, problem, scores, threshold) ==
    IF total_score >= threshold.high_confidence THEN "High"
    ELSE IF total_score >= threshold.medium_confidence THEN "Medium"
    ELSE IF total_score > 0 THEN "Low"
    ELSE "None"

\* Mutant: the evidence downgrade ignores the two alignment scores.
confidence_band_always_downgrade(total_score, problem, scores, threshold) ==
    LET band == confidence_band_no_downgrade(total_score, problem, scores, threshold)
    IN  IF problem.evidence_strength = 0 /\ band = "High" THEN "Medium" ELSE band

confidence_band(total_score, problem, scores, threshold) ==
    LET band == IF total_score >= threshold.high_confidence THEN "High"
                ELSE IF total_score >= threshold.medium_confidence THEN "Medium"
                ELSE IF total_score > 0 THEN "Low"
                ELSE "None"
    IN  IF problem.evidence_strength = 0 /\ band = "High"
           /\ ~(scores.capability_alignment = 2 /\ scores.causal_coverage = 2)
        THEN "Medium"
        ELSE band

\* Mutant: Full is granted without the causal_root facet.
coverage_label_without_causal(band, facets) ==
    IF facets.capability /\ facets.value THEN "Full"
    ELSE IF band \in {"High", "Medium"} THEN "Partial"
    ELSE "None"

coverage_label(band, facets) ==
    IF facets.capability /\ facets.causal_root /\ facets.value THEN "Full"
    ELSE IF band \in {"High", "Medium"} THEN "Partial"
    ELSE "None"

\* The sentence is one of three templates; the model keeps which one.
causal_rationale(problem, story, scores) ==
    IF scores.causal_coverage = 2 THEN "neutralises_the_barrier"
    ELSE IF scores.capability_alignment >= 1 THEN "helps_but_does_not_fully_remove"
    ELSE "does_not_address_the_barrier"

\* Mutant: the evidence dimension is left out of the total.
SumScores_without_evidence(scores) ==
    scores.persona_alignment + scores.capability_alignment + scores.causal_coverage
    + scores.granularity_fit + scores.value_alignment + scores.governance_alignment

\* Sum of the values of the scores mapping.
SumScores(scores) ==
    scores.persona_alignment + scores.capability_alignment + scores.causal_coverage
    + scores.granularity_fit + scores.value_alignment + scores.governance_alignment
    + scores.evidence_strength_transfer

\* Mutant: the timestamp read for the provenance leaks into the total.
score_pair_clocked(problem, story, cfg, now) ==
    LET scores == [persona_alignment |-> persona_alignment(problem, story),
                   capability_alignment |-> capability_alignment(problem, story),
                   causal_coverage |-> causal_coverage(problem, story),
                   granularity_fit |-> granularity_fit(problem, story),
                   value_alignment |-> value_alignment(problem, story),
                   governance_alignment |-> governance_alignment(problem, story, cfg),
                   evidence_strength_transfer |-> evidence_transfer(problem)]
        total == SumScores(scores) + (now % 2)
        facets == compute_facet_flags(scores)
        band == confidence_band(total, problem, scores, cfg.threshold)
        coverage == coverage_label(band, facets)
        rationale == causal_rationale(problem, story, scores)
        low == cfg.threshold.borderline_band[1]
        high == cfg.threshold.borderline_band[2]
        flags1 == IF low <= total /\ total <= high /\ band = "Medium"
                  THEN <<"borderline_medium">> ELSE <<>>
        flags == IF band = "High" /\ problem.evidence_strength <= 1
                 THEN Append(flags1, "high_needs_review") ELSE flags1
    IN  [problem_id |-> problem.problem_id,
         story_id |-> story.story_id,
         scores |-> scores,
         total_score |-> total,
         confidence_band |-> band,
         facet_coverage |-> facets,
         coverage_label |-> coverage,
         causal_rationale |-> rationale,
         provenance |-> [created_at |-> now, notes |-> "heuristic_rule_based"],
         flags |-> flags]

\* Mutant: borderline_medium is flagged for any band inside the borderline range.
score_pair_flag_any_band(problem, story, cfg, now) ==
    LET scores == [persona_alignment |-> persona_alignment(problem, story),
                   capability_alignment |-> capability_alignment(problem, story),
                   causal_coverage |-> causal_coverage(problem, story),
                   granularity_fit |-> granularity_fit(problem, story),
                   value_alignment |-> value_alignment(problem, story),
                   governance_alignment |-> governance_alignment(problem, story, cfg),
                   evidence_strength_transfer |-> evidence_transfer(problem)]
        total == SumScores(scores)
        facets == compute_facet_flags(scores)
        band == confidence_band(total, problem, scores, cfg.threshold)
        coverage == coverage_label(band, facets)
        rationale == causal_rationale(problem, story, scores)
        low == cfg.threshold.borderline_band[1]
        high == cfg.threshold.borderline_band[2]
        flags1 == IF low <= total /\ total <= high
                  THEN <<"borderline_medium">> ELSE <<>>
        flags == IF band = "High" /\ problem.evidence_strength <= 1
                 THEN Append(flags1, "high_needs_review") ELSE flags1
    IN  [problem_id |-> problem.problem_id,
         story_id |-> story.story_id,
         scores |-> scores,
         total_score |-> total,
         confidence_band |-> band,
         facet_coverage |-> facets,
         coverage_label |-> coverage,
         causal_rationale |-> rationale,
         provenance |-> [created_at |-> now, notes |-> "heuristic_rule_based"],
         flags |-> flags]

\* Mutant: high_needs_review is flagged only for a problem without evidence.
score_pair_review_without_evidence(problem, story, cfg, now) ==
    LET scores == [persona_alignment |-> persona_alignment(problem, story),
                   capability_alignment |-> capability_alignment(problem, story),
                   causal_coverage |-> causal_coverage(problem, story),
                   granularity_fit |-> granularity_fit(problem, story),
                   value_alignment |-> value_alignment(problem, story),
                   governance_alignment |-> governance_alignment(problem, story, cfg),
                   evidence_strength_transfer |-> evidence_transfer(problem)]
        total == SumScores(scores)
        facets == compute_facet_flags(scores)
        band == confidence_band(total, problem, scores, cfg.threshold)
        coverage == coverage_label(band, facets)
        rationale == causal_rationale(problem, story, scores)
        low == cfg.threshold.borderline_band[1]
        high == cfg.threshold.borderline_band[2]
        flags1 == IF low <= total /\ total <= high /\ band = "Medium"
                  THEN <<"borderline_medium">> ELSE <<>>
        flags == IF band = "High" /\ problem.evidence_strength <= 0
                 THEN Append(flags1, "high_needs_review") ELSE flags1
    IN  [problem_id |-> problem.problem_id,
         story_id |-> story.story_id,
         scores |-> scores,
         total_score |-> total,
         confidence_band |-> band,
         facet_coverage |-> facets,
         coverage_label |-> coverage,
         causal_rationale |-> rationale,
         provenance |-> [created_at |-> now, notes |-> "heuristic_rule_based"],
         flags |-> flags]

score_pair(problem, story, cfg, now) ==
    LET scores == [persona_alignment |-> persona_alignment(problem, story),
                   capability_alignment |-> capability_alignment(problem, story),
                   causal_coverage |-> causal_coverage(problem, story),
                   granularity_fit |-> granularity_fit(problem, story),
                   value_alignment |-> value_alignment(problem, story),
                   governance_alignment |-> governance_alignment(problem, story, cfg),
                   evidence_strength_transfer |-> evidence_transfer(problem)]
        total == SumScores(scores)
        facets == compute_facet_flags(scores)
        band == confidence_band(total, problem, scores, cfg.threshold)
        coverage == coverage_label(band, facets)
        rationale == causal_rationale(problem, story, scores)
        low == cfg.threshold.borderline_band[1]
        high == cfg.threshold.borderline_band[2]
        flags1 == IF low <= total /\ total <= high /\ band = "Medium"
                  THEN <<"borderline_medium">> ELSE <<>>
        flags == IF band = "High" /\ problem.evidence_strength <= 1
                 THEN Append(flags1, "high_needs_review") ELSE flags1
    IN  [problem_id |-> problem.problem_id,
         story_id |-> story.story_id,
         scores |-> scores,
         total_score |-> total,
         confidence_band |-> band,
         facet_coverage |-> facets,
         coverage_label |-> coverage,
         causal_rationale |-> rationale,
         provenance |-> [created_at |-> now, notes |-> "heuristic_rule_based"],
         flags |-> flags]

(***************************************************************************)
(* pairing.py: the candidate filter                                        *)
(***************************************************************************)
\* The pairs <<term, word>> of the model's vocabulary where term is a proper
\* substring of word.
ProperSubstrings == {<<"audit", "auditable">>, <<"audit", "auditor">>, <<"control", "controls">>}

\* Python's `term in text` for a term without blanks: it lies inside one word.
SubstringOf(term, text) ==
    \E i \in DOMAIN text : term = text[i] \/ <<term, text[i]>> \in ProperSubstrings

candidate_pair(problem, story, cfg) ==
    LET persona_match == persona_alignment(problem, story) > 0
        domain_overlap == Range(problem.domain_terms) \cap Range(story.domain_terms) # {}
        governance_bridge ==
            /\ story.governance_signal >= 1
            /\ \E k \in DOMAIN cfg.governance_terms :
                   SubstringOf(cfg.governance_terms[k], normalise_text(problem.barrier))
    IN  persona_match \/ domain_overlap \/ governance_bridge

\* The two nested loops of propose_pairs, at problem i and story j; a pair is
\* the positions <<i, j>> of the two records it references.
RECURSIVE propose_loop(_, _, _, _, _, _)
propose_loop(ps, ss, cfg, i, j, acc) ==
    IF i > Len(ps) THEN acc
    ELSE IF j > Len(ss) THEN propose_loop(ps, ss, cfg, i + 1, 1, acc)
    ELSE propose_loop(ps, ss, cfg, i, j + 1,
                      IF candidate_pair(ps[i], ss[j], cfg) THEN Append(acc, <<i, j>>) ELSE acc)

\* Mutant: the loops are nested the other way round (story-major order).
RECURSIVE propose_loop_story_major(_, _, _, _, _, _)
propose_loop_story_major(ps, ss, cfg, i, j, acc) ==
    IF j > Len(ss) THEN acc
    ELSE IF i > Len(ps) THEN propose_loop_story_major(ps, ss, cfg, 1, j + 1, acc)
    ELSE propose_loop_story_major(ps, ss, cfg, i + 1, j,
                      IF candidate_pair(ps[i], ss[j], cfg) THEN Append(acc, <<i, j>>) ELSE acc)

propose_pairs_story_major(ps, ss, cfg) == propose_loop_story_major(ps, ss, cfg, 1, 1, <<>>)

propose_pairs(ps, ss, cfg) == propose_loop(ps, ss, cfg, 1, 1, <<>>)

score_pairs(ps, ss, prs, cfg, now) ==
    [k \in 1..Len(prs) |-> score_pair(ps[prs[k][1]], ss[prs[k][2]], cfg, now + k)]

(***************************************************************************)
(* pairing.py: the coverage aggregator                                     *)
(***************************************************************************)
\* problem_lookup.get(problem_id): the dict comprehension keeps the last
\* problem of each id; the empty sequence stands for None, <<p>> for p.
problem_lookup(ps, problem_id) ==
    LET hits == {i \in DOMAIN ps : ps[i].problem_id = problem_id}
    IN  IF hits = {} THEN <<>>
        ELSE <<ps[CHOOSE i \in hits : \A h \in hits : h <= i]>>

\* The keys of `grouped` in insertion order: first occurrence in the edge list.
RECURSIVE grouped_keys(_, _)
grouped_keys(es, acc) ==
    IF es = <<>> THEN acc
    ELSE grouped_keys(Tail(es),
                      IF \E k \in DOMAIN acc : acc[k] = Head(es).problem_id
                      THEN acc ELSE Append(acc, Head(es).problem_id))

grouped(es, problem_id) == SelectSeq(es, LAMBDA e : e.problem_id = problem_id)

\* Mutant: on a tie the last edge of maximal total_score is taken.
best_edge_of_last(entries) ==
    entries[CHOOSE k \in DOMAIN entries :
                /\ \A m \in DOMAIN entries : entries[m].total_score <= entries[k].total_score
                /\ \A m \in (k + 1)..Len(entries) : entries[m].total_score < entries[k].total_score]

\* max(entries, key=total_score): the first edge of maximal total_score.
best_edge_of(entries) ==
    entries[CHOOSE k \in DOMAIN entries :
                /\ \A m \in DOMAIN entries : entries[m].total_score <= entries[k].total_score
                /\ \A m \in 1..(k - 1) : entries[m].total_score < entries[k].total_score]

\* The reason tags in the order Python's sorted() gives strings.
ReasonOrder ==
    <<"borderline_medium", "high_with_low_evidence", "no_full_coverage", "no_pairs", "residual_gaps">>

sorted_set(reasons) == SelectSeq(ReasonOrder, LAMBDA r : r \in Range(reasons))

\* "borderline" in "_".join(edge.flags): no flag carries a blank or joins to
\* the word across the underscore, so it lies inside one flag of the edge.
HasBorderlineFlag(edge) == \E k \in DOMAIN edge.flags : edge.flags[k] = "borderline_medium"

\* Mutant: a facet counts as resolved only when the best edge satisfies it.
group_summary_best_only(ps, problem_id, entries) ==
    LET best_edge == best_edge_of(entries)
        unresolved_facets == SelectSeq(FACETS, LAMBDA facet : ~best_edge.facet_coverage[facet])
        r1 == IF ~\E k \in DOMAIN entries : entries[k].coverage_label = "Full"
              THEN <<"no_full_coverage">> ELSE <<>>
        r2 == IF \E k \in DOMAIN entries : HasBorderlineFlag(entries[k])
              THEN Append(r1, "borderline_medium") ELSE r1
        problem == problem_lookup(ps, problem_id)
        r3 == IF problem # <<>>
                 /\ \E k \in DOMAIN entries :
                        entries[k].confidence_band = "High" /\ problem[1].evidence_strength <= 1
              THEN Append(r2, "high_with_low_evidence") ELSE r2
        reasons == IF \E f \in DOMAIN ESSENTIAL_FACETS : ESSENTIAL_FACETS[f] \in Range(unresolved_facets)
                   THEN Append(r3, "residual_gaps") ELSE r3
    IN  [problem_id |-> problem_id,
         best_confidence |-> best_edge.confidence_band,
         best_coverage |-> best_edge.coverage_label,
         unresolved_facets |-> unresolved_facets,
         escalate |-> reasons # <<>>,
         escalate_reasons |-> sorted_set(reasons)]

\* Mutant: only the best edge's flags raise the reason borderline_medium.
group_summary_borderline_best(ps, problem_id, entries) ==
    LET best_edge == best_edge_of(entries)
        unresolved_facets ==
            SelectSeq(FACETS, LAMBDA facet : ~\E k \in DOMAIN entries : entries[k].facet_coverage[facet])
        r1 == IF ~\E k \in DOMAIN entries : entries[k].coverage_label = "Full"
              THEN <<"no_full_coverage">> ELSE <<>>
        r2 == IF HasBorderlineFlag(best_edge)
              THEN Append(r1, "borderline_medium") ELSE r1
        problem == problem_lookup(ps, problem_id)
        r3 == IF problem # <<>>
                 /\ \E k \in DOMAIN entries :
                        entries[k].confidence_band = "High" /\ problem[1].evidence_strength <= 1
              THEN Append(r2, "high_with_low_evidence") ELSE r2
        reasons == IF \E f \in DOMAIN ESSENTIAL_FACETS : ESSENTIAL_FACETS[f] \in Range(unresolved_facets)
                   THEN Append(r3, "residual_gaps") ELSE r3
    IN  [problem_id |-> problem_id,
         best_confidence |-> best_edge.confidence_band,
         best_coverage |-> best_edge.coverage_label,
         unresolved_facets |-> unresolved_facets,
         escalate |-> reasons # <<>>,
         escalate_reasons |-> sorted_set(reasons)]

\* Mutant: a group without a Full edge is not given the reason no_full_coverage.
group_summary_without_no_full(ps, problem_id, entries) ==
    LET best_edge == best_edge_of(entries)
        unresolved_facets ==
            SelectSeq(FACETS, LAMBDA facet : ~\E k \in DOMAIN entries : entries[k].facet_coverage[facet])
        r2 == IF \E k \in DOMAIN entries : HasBorderlineFlag(entries[k])
              THEN <<"borderline_medium">> ELSE <<>>
        problem == problem_lookup(ps, problem_id)
        r3 == IF problem # <<>>
                 /\ \E k \in DOMAIN entries :
                        entries[k].confidence_band = "High" /\ problem[1].evidence_strength <= 1
              THEN Append(r2, "high_with_low_evidence") ELSE r2
        reasons == IF \E f \in DOMAIN ESSENTIAL_FACETS : ESSENTIAL_FACETS[f] \in Range(unresolved_facets)
                   THEN Append(r3, "residual_gaps") ELSE r3
    IN  [problem_id |-> problem_id,
         best_confidence |-> best_edge.confidence_band,
         best_coverage |-> best_edge.coverage_label,
         unresolved_facets |-> unresolved_facets,
         escalate |-> reasons # <<>>,
         escalate_reasons |-> sorted_set(reasons)]

group_summary(ps, problem_id, entries) ==
    LET best_edge == best_edge_of(entries)
        unresolved_facets ==
            SelectSeq(FACETS, LAMBDA facet : ~\E k \in DOMAIN entries : entries[k].facet_coverage[facet])
        r1 == IF ~\E k \in DOMAIN entries : entries[k].coverage_label = "Full"
              THEN <<"no_full_coverage">> ELSE <<>>
        r2 == IF \E k \in DOMAIN entries : HasBorderlineFlag(entries[k])
              THEN Append(r1, "borderline_medium") ELSE r1
        problem == problem_lookup(ps, problem_id)
        r3 == IF problem # <<>>
                 /\ \E k \in DOMAIN entries :
                        entries[k].confidence_band = "High" /\ problem[1].evidence_strength <= 1
              THEN Append(r2, "high_with_low_evidence") ELSE r2
        reasons == IF \E f \in DOMAIN ESSENTIAL_FACETS : ESSENTIAL_FACETS[f] \in Range(unresolved_facets)
                   THEN Append(r3, "residual_gaps") ELSE r3
    IN  [problem_id |-> problem_id,
         best_confidence |-> best_edge.confidence_band,
         best_coverage |-> best_edge.coverage_label,
         unresolved_facets |-> unresolved_facets,
         escalate |-> reasons # <<>>,
         escalate_reasons |-> sorted_set(reasons)]

\* Mutant: the synthetic summary does not escalate.
no_pairs_summary_quiet(problem) ==
    [problem_id |-> problem.problem_id,
     best_confidence |-> "None",
     best_coverage |-> "None",
     unresolved_facets |-> FACETS,
     escalate |-> FALSE,
     escalate_reasons |-> <<>>]

no_pairs_summary(problem) ==
    [problem_id |-> problem.problem_id,
     best_confidence |-> "None",
     best_coverage |-> "None",
     unresolved_facets |-> FACETS,
     escalate |-> TRUE,
     escalate_reasons |-> <<"no_pairs">>]

coverage_summaries(ps, es) ==
    LET keys == grouped_keys(es, <<>>)
        with_edges == [k \in DOMAIN keys |-> group_summary(ps, keys[k], grouped(es, keys[k]))]
        without == SelectSeq(ps, LAMBDA problem : problem.problem_id \notin Range(keys))
    IN  with_edges \o [k \in DOMAIN without |-> no_pairs_summary(without[k])]

(***************************************************************************)
(* Inputs: the records handed to the core.                                 *)
(***************************************************************************)
NormalisedProblem(id, persona, outcome, barrier, value, terms, evidence) ==
    [problem_id |-> id, persona |-> persona, desired_outcome |-> outcome, barrier |-> barrier,
     value_intent |-> value, domain_terms |-> terms, evidence_strength |-> evidence]

ParsedStory(id, raw, persona, capability, value, terms, signal) ==
    [story_id |-> id, raw_text |-> raw, persona |-> persona, capability |-> capability,
     business_value |-> value, domain_terms |-> terms, governance_signal |-> signal]

\* evidence_strength() and governance_signal() return 0, 1 or 2.
EvidenceStrengths == {0, 1, 2}

GovernanceSignals == {0, 1, 2}

LowThreshold == [high_confidence |-> 10, medium_confidence |-> 6, borderline_band |-> <<6, 9>>]

CrossedThreshold == [high_confidence |-> 5, medium_confidence |-> 8, borderline_band |-> <<4, 7>>]

Thresholds == {ThresholdConfig, LowThreshold, CrossedThreshold}

GovernanceTermSets == {DefaultGovernanceTerms, <<"Audit", "Policy">>, <<>>}

\* One problem and one story for a direct call: the texts of every field vary.
PairProblems ==
    {NormalisedProblem("P1", persona, outcome, barrier, value, <<>>, evidence) :
        persona \in {<<>>, <<"Data", "Analyst">>},
        outcome \in {<<>>, <<"trusted", "reports">>},
        barrier \in {<<>>, <<"lack", "of", "audit", "trail">>, <<"Audit", "trail">>, <<"slow", "reports">>},
        value \in {<<>>, <<"trust", "reports">>, <<"audit", "compliance">>},
        evidence \in EvidenceStrengths}

PairStories ==
    {ParsedStory("S1", raw, persona, capability, value, <<>>, signal) :
        raw \in {<<>>, <<"audit", "trail", "reports">>},
        persona \in {<<>>, <<"data", "analyst">>, <<"data", "engineer">>},
        capability \in {<<>>, <<"add", "audit", "trail", "to", "exports">>, <<"audit", "trail">>,
                        <<"faster", "reports">>},
        value \in {<<>>, <<"trust", "reports">>, <<"trust", "data", "exports">>},
        signal \in GovernanceSignals}

\* One problem and one story for the candidate filter: the fields it reads vary.
FilterProblems ==
    {NormalisedProblem("P1", persona, <<"trusted", "reports">>, barrier, <<>>, terms, 1) :
        persona \in {<<>>, <<"Data", "Analyst">>, <<"auditor">>},
        barrier \in {<<>>, <<"lack", "of", "audit", "trail">>, <<"Audit", "trail">>,
                     <<"auditable", "x">>, <<"slow", "reports">>},
        terms \in {<<>>, <<"audit", "reports">>, <<"lineage">>}}

FilterStories ==
    {ParsedStory("S1", <<>>, persona, <<"faster", "reports">>, <<>>, terms, signal) :
        persona \in {<<>>, <<"data", "analyst">>, <<"data", "engineer">>, <<"The", "Analyst">>},
        terms \in {<<>>, <<"reports">>, <<"exports", "audit">>},
        signal \in GovernanceSignals}

\* The records of a pipeline run; two problems share the id P1.
ProblemPool ==
    {NormalisedProblem("P1", <<"Data", "Analyst">>, <<>>, <<"audit", "trail">>,
                       <<"trust", "reports">>, <<"audit", "trail">>, 0),
     NormalisedProblem("P1", <<"Data", "Analyst">>, <<"trusted", "reports">>,
                       <<"lack", "of", "audit", "trail">>, <<"trust", "reports">>, <<"audit">>, 2),
     NormalisedProblem("P2", <<"auditor">>, <<"trusted", "reports">>, <<"slow", "reports">>,
                       <<>>, <<"reports">>, 1),
     NormalisedProblem("P3", <<>>, <<>>, <<"an", "unspecified", "barrier">>, <<"the">>, <<>>, 2),
     NormalisedProblem("P2", <<"data", "engineer">>, <<"faster", "reports">>, <<"slow", "reports">>,
                       <<"trust", "data">>, <<"reports", "data">>, 1),
     NormalisedProblem("P4", <<>>, <<"the", "trusted", "reports", "of", "the", "data">>,
                       <<"audit", "trail">>, <<"trust", "data">>, <<"exports">>, 0)}

StoryPool ==
    {ParsedStory("S1", <<"audit", "trail", "reports">>, <<"data", "analyst">>, <<"audit", "trail">>,
                 <<"trust", "reports">>, <<"audit", "trail">>, 2),
     ParsedStory("S2", <<"faster", "reports">>, <<"data", "engineer">>, <<"faster", "reports">>,
                 <<"trust", "data", "exports">>, <<"reports">>, 0),
     ParsedStory("S3", <<"add", "audit", "trail", "to", "exports">>, <<"auditor">>,
                 <<"add", "audit", "trail", "to", "exports">>, <<"trust", "reports">>,
                 <<"exports">>, 1),
     ParsedStory("S4", <<>>, <<"Stakeholder">>, <<>>, <<>>, <<>>, 0),
     ParsedStory("S5", <<"slow", "reports", "audit", "trail", "data", "exports">>,
                 <<"data", "analyst">>, <<"slow", "reports", "audit", "trail">>,
                 <<"data", "exports">>, <<"audit", "reports">>, 0)}

PipelineConfigs == {AgentConfig, [threshold |-> LowThreshold, governance_terms |-> DefaultGovernanceTerms]}

\* The sequences over S of length at most n.
SeqUpTo(S, n) == UNION {[1..k -> S] : k \in 0..n}

(***************************************************************************)
(* The pipeline: propose_pairs -> score_pairs -> coverage_summaries        *)
(* (io_utils.run_pipeline), run twice on the same inputs.                  *)
(***************************************************************************)
Start ==
    /\ pairs = <<>>
    /\ edges = <<>>
    /\ summaries = <<>>
    /\ pc = "propose"
    /\ clock = 0
    /\ run = 1
    /\ prev_edges = <<>>
    /\ prev_summaries = <<>>

Init ==
    /\ problems \in SeqUpTo(ProblemPool, MaxProblems)
    /\ stories \in SeqUpTo(StoryPool, MaxStories)
    /\ config \in PipelineConfigs
    /\ Start

ProposePairs ==
    /\ pc = "propose"
    /\ pairs' = propose_pairs(problems, stories, config)
    /\ pc' = "score"
    /\ UNCHANGED <<problems, stories, config, edges, summaries, clock, run, prev_edges, prev_summaries>>

\* Every score_pair call reads the wall clock, which has moved on since the
\* previous read.
ScorePairs ==
    /\ pc = "score"
    /\ edges' = score_pairs(problems, stories, pairs, config, clock)
    /\ clock' = clock + Len(pairs)
    /\ pc' = "summarise"
    /\ UNCHANGED <<problems, stories, config, pairs, summaries, run, prev_edges, prev_summaries>>

CoverageSummaries ==
    /\ pc = "summarise"
    /\ summaries' = coverage_summaries(problems, edges)
    /\ pc' = "done"
    /\ UNCHANGED <<problems, stories, config, pairs, edges, clock, run, prev_edges, prev_summaries>>

\* The caller keeps the results of the first run and runs the sequence again.
Rerun ==
    /\ pc = "done"
    /\ run = 1
    /\ prev_edges' = edges
    /\ prev_summaries' = summaries
    /\ pairs' = <<>>
    /\ edges' = <<>>
    /\ summaries' = <<>>
    /\ run' = 2
    /\ pc' = "propose"
    /\ UNCHANGED <<problems, stories, config, clock>>

Next == ProposePairs \/ ScorePairs \/ CoverageSummaries \/ Rerun

Spec == Init /\ [][Next]_vars

(***************************************************************************)
(* Direct calls of candidate_pair (through propose_pairs) and score_pair   *)
(* on one problem and one story.                                           *)
(***************************************************************************)
InitPair ==
    /\ \/ /\ problems \in {<<p>> : p \in PairProblems}
          /\ stories \in {<<s>> : s \in PairStories}
          /\ config \in {[threshold |-> t, governance_terms |-> DefaultGovernanceTerms] : t \in Thresholds}
       \/ /\ problems \in {<<p>> : p \in FilterProblems}
          /\ stories \in {<<s>> : s \in FilterStories}
          /\ config \in {[threshold |-> ThresholdConfig, governance_terms |-> g] : g \in GovernanceTermSets}
    /\ Start

\* score_pair called on a pair whether or not the filter proposed it.
ScoreDirect ==
    /\ pc = "score"
    /\ \E i \in DOMAIN problems, j \in DOMAIN stories :
           edges' = <<score_pair(problems[i], stories[j], config, clock + 1)>>
    /\ clock' = clock + 1
    /\ pc' = "scored"
    /\ UNCHANGED <<problems, stories, config, pairs, summaries, run, prev_edges, prev_summaries>>

NextPair == ProposePairs \/ ScoreDirect

SpecPair == InitPair /\ [][NextPair]_vars

(***************************************************************************)
(* Properties of a directly scored pair (SpecPair).                        *)
(***************************************************************************)
Scored == pc = "scored"

TextDimensionsAllTwo(e) ==
    /\ e.scores.persona_alignment = 2
    /\ e.scores.capability_alignment = 2
    /\ e.scores.causal_coverage = 2
    /\ e.scores.granularity_fit = 2
    /\ e.scores.value_alignment = 2
    /\ e.scores.governance_alignment = 2

DowngradeCase ==
    /\ Scored
    /\ problems[1].evidence_strength = 0
    /\ edges[1].total_score >= config.threshold.high_confidence
    /\ ~(edges[1].scores.capability_alignment = 2 /\ edges[1].scores.causal_coverage = 2)

\* C1: a problem with evidence_strength 0 whose total reaches high_confidence
\* without both capability_alignment = 2 and causal_coverage = 2 gets the band
\* Medium, never High, under every threshold configuration.
C1_DowngradeRule == DowngradeCase => edges[1].confidence_band = "Medium"

C1_Witness == DowngradeCase /\ edges[1].confidence_band = "Medium"

ScenarioC ==
    /\ Scored
    /\ config.threshold = ThresholdConfig
    /\ problems[1].evidence_strength = 0
    /\ TextDimensionsAllTwo(edges[1])

\* C2 as stated: with the default thresholds, evidence_strength 0 and every
\* text-derived dimension at 2, the edge reports Medium and not High.
C2_ScenarioC_Medium == ScenarioC => edges[1].confidence_band = "Medium"

\* C2 as amended: in that scenario the total is 12 and the band stays High,
\* since capability_alignment and causal_coverage are both 2.
C2_ScenarioC_High ==
    ScenarioC => edges[1].total_score = 12 /\ edges[1].confidence_band = "High"

C2_Witness == ScenarioC /\ edges[1].scores.evidence_strength_transfer = 0

EssentialsMet(e) ==
    /\ e.scores.capability_alignment >= 1
    /\ e.scores.causal_coverage = 2
    /\ e.scores.value_alignment >= 1

\* C4: coverage_label is Full exactly when capability_alignment >= 1,
\* causal_coverage = 2 and value_alignment >= 1; otherwise it is Partial exactly
\* when the band is High or Medium, and None in every remaining case.
C4_CoverageLabel ==
    Scored =>
        LET e == edges[1]
        IN  /\ (e.coverage_label = "Full") <=> EssentialsMet(e)
            /\ ~EssentialsMet(e) =>
                   /\ (e.coverage_label = "Partial") <=> (e.confidence_band \in {"High", "Medium"})
                   /\ e.confidence_band \notin {"High", "Medium"} => e.coverage_label = "None"
            /\ e.facet_coverage.capability <=> e.scores.capability_alignment >= 1
            /\ e.facet_coverage.causal_root <=> e.scores.causal_coverage = 2
            /\ e.facet_coverage.value <=> e.scores.value_alignment >= 1

C4_Witness ==
    /\ Scored
    /\ edges[1].coverage_label = "Full"
    /\ edges[1].confidence_band = "Low"

\* The three conditions of the candidate filter as the specification words them.
PersonaMatches(p, s) == persona_alignment(p, s) > 0

DomainTermsIntersectIgnoringCase(p, s) ==
    {Lower(t) : t \in Range(p.domain_terms)} \cap {Lower(t) : t \in Range(s.domain_terms)} # {}

GovernanceBridgeIgnoringCase(p, s, cfg) ==
    /\ s.governance_signal >= 1
    /\ \E k \in DOMAIN cfg.governance_terms :
           SubstringOf(Lower(cfg.governance_terms[k]), normalise_text(p.barrier))

\* C6: a pair is proposed if and only if the personas align, or the domain-term
\* sets intersect ignoring case, or the story has governance_signal >= 1 and a
\* configured governance term occurs in the barrier ignoring case.
C6_CandidateIff ==
    (pc # "propose" /\ Len(problems) = 1 /\ Len(stories) = 1) =>
        ((pairs # <<>>) <=>
            \/ PersonaMatches(problems[1], stories[1])
            \/ DomainTermsIntersectIgnoringCase(problems[1], stories[1])
            \/ GovernanceBridgeIgnoringCase(problems[1], stories[1], config))

\* C8: each of the seven scores of an edge is 0, 1 or 2, and total_score is
\* their sum, hence between 0 and 14; empty texts score like any other.
C8_ScoresAndTotal ==
    Scored =>
        LET e == edges[1]
            sc == e.scores
        IN  /\ DOMAIN sc = {"persona_alignment", "capability_alignment", "causal_coverage",
                            "granularity_fit", "value_alignment", "governance_alignment",
                            "evidence_strength_transfer"}
            /\ \A d \in DOMAIN sc : sc[d] \in {0, 1, 2}
            /\ e.total_score = sc.persona_alignment + sc.capability_alignment + sc.causal_coverage
                               + sc.granularity_fit + sc.value_alignment + sc.governance_alignment
                               + sc.evidence_strength_transfer
            /\ e.total_score \in 0..14

C8_Witness ==
    /\ Scored
    /\ stories[1].capability = <<>>
    /\ problems[1].barrier = <<>>
    /\ problems[1].evidence_strength = 2
    /\ edges[1].total_score > 0

(***************************************************************************)
(* Properties of the pipeline (Spec).                                      *)
(***************************************************************************)
Done == pc = "done"

EdgeIds == {edges[k].problem_id : k \in DOMAIN edges}

SummariesOf(id) == {k \in DOMAIN summaries : summaries[k].problem_id = id}

\* C3: coverage_summaries returns exactly one summary per distinct problem_id:
\* no problem_id appears in two summaries and every problem has one.
C3_OneSummaryPerProblemId ==
    Done =>
        /\ \A a, b \in DOMAIN summaries :
               summaries[a].problem_id = summaries[b].problem_id => a = b
        /\ \A i \in DOMAIN problems : SummariesOf(problems[i].problem_id) # {}

IsNoPairsSummary(sm) ==
    /\ sm.best_confidence = "None"
    /\ sm.best_coverage = "None"
    /\ Len(sm.unresolved_facets) = 6
    /\ Range(sm.unresolved_facets) =
           {"persona", "capability", "causal_root", "value", "governance", "granularity_compatible"}
    /\ sm.escalate = TRUE
    /\ sm.escalate_reasons = <<"no_pairs">>

\* C5: every problem whose id has no edge gets the synthetic summary (None,
\* None, all six facets unresolved, escalate, reasons exactly no_pairs), and no
\* problem with at least one edge gets the reason no_pairs.
C5_NoPairsSummary ==
    Done =>
        \A i \in DOMAIN problems :
            LET id == problems[i].problem_id
            IN  IF id \notin EdgeIds
                THEN /\ SummariesOf(id) # {}
                     /\ \A k \in SummariesOf(id) : IsNoPairsSummary(summaries[k])
                ELSE \A k \in SummariesOf(id) : "no_pairs" \notin Range(summaries[k].escalate_reasons)

C5_Witness ==
    /\ Done
    /\ \E i \in DOMAIN problems : problems[i].problem_id \notin EdgeIds
    /\ \E i \in DOMAIN problems : problems[i].problem_id \in EdgeIds

Before(a, b) == a[1] < b[1] \/ (a[1] = b[1] /\ a[2] < b[2])

ProposedPairsInOrder ==
    pc # "propose" =>
        /\ \A k \in DOMAIN pairs :
               /\ pairs[k][1] \in DOMAIN problems
               /\ pairs[k][2] \in DOMAIN stories
               /\ candidate_pair(problems[pairs[k][1]], stories[pairs[k][2]], config)
        /\ \A i \in DOMAIN problems, j \in DOMAIN stories :
               candidate_pair(problems[i], stories[j], config) => \E k \in DOMAIN pairs : pairs[k] = <<i, j>>
        /\ \A k, m \in DOMAIN pairs : k < m => Before(pairs[k], pairs[m])

\* C7: propose_pairs returns exactly the qualifying combinations in
\* problem-major order (all pairs of the first problem in story order, then the
\* next problem), each position pair at most once, and leaves its inputs unchanged.
C7_ProposeOrder ==
    /\ []ProposedPairsInOrder
    /\ [][pc = "propose" => (problems' = problems /\ stories' = stories /\ config' = config)]_vars

C7_Witness ==
    /\ pc = "score"
    /\ Len(pairs) >= 3
    /\ Len(pairs) < Len(problems) * Len(stories)
    /\ \E k \in DOMAIN pairs : k > 1 /\ pairs[k][2] < pairs[k - 1][2]

\* C9: the second run over identical inputs yields edges and summaries of the
\* same length and order with pairwise identical total_score, confidence_band,
\* coverage_label and escalate, whatever timestamps the two runs read.
C9_Determinism ==
    (Done /\ run = 2) =>
        /\ Len(edges) = Len(prev_edges)
        /\ \A k \in DOMAIN edges :
               /\ edges[k].problem_id = prev_edges[k].problem_id
               /\ edges[k].story_id = prev_edges[k].story_id
               /\ edges[k].total_score = prev_edges[k].total_score
               /\ edges[k].confidence_band = prev_edges[k].confidence_band
               /\ edges[k].coverage_label = prev_edges[k].coverage_label
        /\ Len(summaries) = Len(prev_summaries)
        /\ \A k \in DOMAIN summaries :
               /\ summaries[k].problem_id = prev_summaries[k].problem_id
               /\ summaries[k].escalate = prev_summaries[k].escalate

C9_Witness ==
    /\ Done
    /\ run = 2
    /\ Len(edges) >= 2
    /\ \A k \in DOMAIN edges : edges[k].provenance.created_at # prev_edges[k].provenance.created_at
    /\ \E k \in DOMAIN summaries : summaries[k].escalate
    /\ \E k \in DOMAIN summaries : ~summaries[k].escalate

EdgesOf(id) == {k \in DOMAIN edges : edges[k].problem_id = id}

\* The reasons the specification lists for a problem with the edge group G.
ExpectedReasons(problem, G, sm) ==
    (IF \A k \in G : edges[k].coverage_label # "Full" THEN {"no_full_coverage"} ELSE {})
    \cup (IF \E k \in G : "borderline_medium" \in Range(edges[k].flags)
          THEN {"borderline_medium"} ELSE {})
    \cup (IF \E k \in G : edges[k].confidence_band = "High" /\ problem.evidence_strength <= 1
          THEN {"high_with_low_evidence"} ELSE {})
    \cup (IF \E f \in {"capability", "causal_root", "value"} : f \in Range(sm.unresolved_facets)
          THEN {"residual_gaps"} ELSE {})

IsSortedWithoutDuplicates(seq) ==
    \A a, b \in DOMAIN seq : a < b =>
        \E x, y \in DOMAIN ReasonOrder : x < y /\ ReasonOrder[x] = seq[a] /\ ReasonOrder[y] = seq[b]

\* C10: for every problem with at least one edge, escalate_reasons is the
\* sorted duplicate-free list of exactly the reasons no_full_coverage,
\* borderline_medium, high_with_low_evidence and residual_gaps that apply, and
\* escalate is true iff that list is non-empty.
C10_EscalateReasons ==
    Done =>
        \A i \in DOMAIN problems :
            LET id == problems[i].problem_id
            IN  EdgesOf(id) # {} =>
                    /\ SummariesOf(id) # {}
                    /\ \A k \in SummariesOf(id) :
                           /\ Range(summaries[k].escalate_reasons)
                                  = ExpectedReasons(problems[i], EdgesOf(id), summaries[k])
                           /\ IsSortedWithoutDuplicates(summaries[k].escalate_reasons)
                           /\ summaries[k].escalate <=> summaries[k].escalate_reasons # <<>>

(***************************************************************************)
(* Scenario A: score_pair on the "audit trail" problem and story.          *)
(***************************************************************************)
FillerWords ==
    <<"w01", "w02", "w03", "w04", "w05", "w06", "w07", "w08", "w09", "w10", "w11", "w12",
      "w13", "w14", "w15", "w16", "w17", "w18", "w19", "w20", "w21", "w22", "w23">>

\* A desired outcome of n distinct keywords that occur nowhere else.
LongOutcome(n) == [i \in 1..n |-> FillerWords[i]]

ScenarioAProblems ==
    {NormalisedProblem("P1", <<"Data", "Analyst">>, outcome, <<"lack", "of", "audit", "trail">>,
                       value, <<>>, evidence) :
        outcome \in {<<>>, <<"trusted", "reports">>, LongOutcome(22), LongOutcome(23)},
        value \in {<<>>, <<"trust", "reports">>, <<"audit", "compliance">>},
        evidence \in EvidenceStrengths}

ScenarioAStories ==
    {ParsedStory("S1", raw, <<"Data", "Analyst">>, <<"add", "audit", "trail", "to", "exports">>,
                 value, <<>>, 2) :
        raw \in {<<>>, <<"audit", "trail", "reports">>},
        value \in {<<>>, <<"trust", "reports">>, <<"trust", "data", "exports">>}}

InitScenarioA ==
    /\ problems \in {<<p>> : p \in ScenarioAProblems}
    /\ stories \in {<<s>> : s \in ScenarioAStories}
    /\ config \in {[threshold |-> t, governance_terms |-> DefaultGovernanceTerms] : t \in Thresholds}
    /\ Start

SpecScenarioA == InitScenarioA /\ [][NextPair]_vars

ScenarioA ==
    /\ Scored
    /\ problems[1].persona = <<"Data", "Analyst">>
    /\ problems[1].barrier = <<"lack", "of", "audit", "trail">>
    /\ stories[1].persona = <<"Data", "Analyst">>
    /\ stories[1].capability = <<"add", "audit", "trail", "to", "exports">>
    /\ stories[1].governance_signal = 2

ScenarioAScores ==
    /\ edges[1].scores.causal_coverage = 2
    /\ edges[1].scores.governance_alignment = 2
    /\ edges[1].scores.persona_alignment = 2

\* C11 as stated: in scenario A causal_coverage, governance_alignment and
\* persona_alignment are 2, and coverage_label is Full whenever value_alignment >= 1.
C11_ScenarioA_FullOnValue ==
    ScenarioA =>
        /\ ScenarioAScores
        /\ edges[1].scores.value_alignment >= 1 => edges[1].coverage_label = "Full"

\* C11 as amended: the three scores are 2, and coverage_label is Full whenever
\* value_alignment >= 1 and capability_alignment >= 1.
C11_ScenarioA_FullOnValueAndCapability ==
    ScenarioA =>
        /\ ScenarioAScores
        /\ (edges[1].scores.value_alignment >= 1 /\ edges[1].scores.capability_alignment >= 1)
               => edges[1].coverage_label = "Full"

C11_Witness ==
    /\ ScenarioA
    /\ problems[1].desired_outcome = LongOutcome(22)
    /\ edges[1].scores.value_alignment >= 1
    /\ edges[1].scores.capability_alignment = 1
    /\ edges[1].coverage_label = "Full"

(***************************************************************************)
(* Empty keyword sets in value_alignment (SpecPair).                       *)
(***************************************************************************)
\* C12: whenever the keyword set of the problem's value_intent or of the
\* story's business_value is empty, also when both are, value_alignment is 0
\* and the value facet is false.
C12_ValueEmptyIsZero ==
    Scored =>
        ((keyword_set(problems[1].value_intent) = {} \/ keyword_set(stories[1].business_value) = {})
            => (edges[1].scores.value_alignment = 0 /\ ~edges[1].facet_coverage.value))

(***************************************************************************)
(* The best edge of a group (Spec).                                        *)
(***************************************************************************)
\* The edges of one problem_id, in edge-list order.
GroupOf(id) == SelectSeq(edges, LAMBDA e : e.problem_id = id)

IsFirstMaximum(G, m) ==
    /\ \A n \in DOMAIN G : G[n].total_score <= G[m].total_score
    /\ \A n \in DOMAIN G : n < m => G[n].total_score < G[m].total_score

\* C13: in every summary of a non-empty edge group, best_confidence and
\* best_coverage are the band and the label of the group's edge of maximum
\* total_score, the first one in edge-list order when several tie.
C13_BestEdgeFirstMaximum ==
    Done =>
        \A k \in DOMAIN summaries :
            LET G == GroupOf(summaries[k].problem_id)
            IN  G # <<>> =>
                    \E m \in DOMAIN G :
                        /\ IsFirstMaximum(G, m)
                        /\ summaries[k].best_confidence = G[m].confidence_band
                        /\ summaries[k].best_coverage = G[m].coverage_label

\* A tie at the maximum between edges that differ in band or label, summarised.
C13_Witness ==
    /\ Done
    /\ \E k \in DOMAIN summaries :
           LET G == GroupOf(summaries[k].problem_id)
           IN  \E m, n \in DOMAIN G :
                   /\ m < n
                   /\ IsFirstMaximum(G, m)
                   /\ G[n].total_score = G[m].total_score
                   /\ (G[n].confidence_band # G[m].confidence_band
                          \/ G[n].coverage_label # G[m].coverage_label)
                   /\ summaries[k].best_confidence = G[m].confidence_band
                   /\ summaries[k].best_coverage = G[m].coverage_label

(***************************************************************************)
(* Unresolved facets of a group (Spec).                                    *)
(***************************************************************************)
FacetNames == {"persona", "capability", "causal_root", "value", "governance", "granularity_compatible"}

\* C14: in every summary of a non-empty edge group, unresolved_facets holds a
\* facet name exactly when no edge of the group has that facet true; a facet
\* that one edge satisfies, even a low-scoring one, is not listed.
C14_UnresolvedFacets ==
    Done =>
        \A k \in DOMAIN summaries :
            LET G == GroupOf(summaries[k].problem_id)
            IN  G # <<>> =>
                    /\ Range(summaries[k].unresolved_facets) \subseteq FacetNames
                    /\ \A f \in FacetNames :
                           f \in Range(summaries[k].unresolved_facets)
                               <=> (\A m \in DOMAIN G : ~G[m].facet_coverage[f])

\* A facet satisfied only by an edge scoring below the best edge of its group
\* is left out of unresolved_facets, next to a facet that stays unresolved.
C14_Witness ==
    /\ Done
    /\ \E k \in DOMAIN summaries :
           LET G == GroupOf(summaries[k].problem_id)
           IN  /\ summaries[k].unresolved_facets # <<>>
               /\ \E f \in FacetNames, m, n \in DOMAIN G :
                      /\ IsFirstMaximum(G, m)
                      /\ G[n].total_score < G[m].total_score
                      /\ G[n].facet_coverage[f]
                      /\ \A j \in DOMAIN G : j # n => ~G[j].facet_coverage[f]
                      /\ f \notin Range(summaries[k].unresolved_facets)

(***************************************************************************)
(* The flags of an edge (SpecPair).                                        *)
(***************************************************************************)
InBorderlineBand(e) ==
    /\ config.threshold.borderline_band[1] <= e.total_score
    /\ e.total_score <= config.threshold.borderline_band[2]

\* C15: flags holds borderline_medium iff total_score lies in the borderline
\* band and the band is Medium, holds high_needs_review iff the band is High
\* and the problem's evidence_strength is at most 1, holds nothing else and
\* holds no flag twice.
C15_Flags ==
    Scored =>
        LET e == edges[1]
        IN  /\ ("borderline_medium" \in Range(e.flags))
                   <=> (InBorderlineBand(e) /\ e.confidence_band = "Medium")
            /\ ("high_needs_review" \in Range(e.flags))
                   <=> (e.confidence_band = "High" /\ problems[1].evidence_strength <= 1)
            /\ Range(e.flags) \subseteq {"borderline_medium", "high_needs_review"}
            /\ \A a, b \in DOMAIN e.flags : e.flags[a] = e.flags[b] => a = b

\* Each side of the conjunction alone raises no flag: a Medium edge outside
\* the borderline band, or a non-Medium edge inside it, scored without flags.
C15_Witness ==
    /\ Scored
    /\ edges[1].flags = <<>>
    /\ \/ edges[1].confidence_band = "Medium" /\ ~InBorderlineBand(edges[1])
       \/ edges[1].confidence_band = "High" /\ InBorderlineBand(edges[1])

(***************************************************************************)
(* io_utils.run_pipeline from the loaded records: normalise_problems,      *)
(* parse_stories, then the core stages and the four writers.               *)
(* `problems` and `stories` hold the raw records until their stage has     *)
(* replaced them.  The raw texts are phrases without punctuation and       *)
(* without the cue phrases of the problem heuristics ("as a", "to", "so    *)
(* that", "because", "due to", "in order to", "for ... users").            *)
(***************************************************************************)
RawProblem(id, text, stakeholder) == [problem_id |-> id, text |-> text, stakeholder |-> stakeholder]

RawStory(id, text) == [story_id |-> id, text |-> text]

\* The fields of the NormalisedProblem dataclass, and those without a default.
NormalisedProblemFields ==
    {"problem_id", "raw_text", "utterance_type", "persona", "desired_outcome", "barrier",
     "value_intent", "domain_terms", "evidence_strength", "stakeholder", "theme", "metadata"}

NormalisedProblemRequired ==
    {"problem_id", "raw_text", "utterance_type", "persona", "desired_outcome", "barrier",
     "value_intent", "domain_terms", "evidence_strength"}

\* The keyword arguments normalise_problem passes to NormalisedProblem(...).
normalise_problem_keywords ==
    {"problem_id", "expression_type", "canonical_problem", "persona", "desired_outcome",
     "barrier", "domain_terms", "value_intent", "evidence_strength", "raw_text",
     "stakeholder", "theme", "metadata"}

\* A dataclass __init__ raises TypeError on an unexpected keyword and on a
\* missing argument without default.
dataclass_init_accepts(fields, required, keywords) ==
    keywords \subseteq fields /\ required \subseteq keywords

\* The first at most n elements of a sequence.
FirstN(s, n) == SubSeq(s, 1, Min2(Len(s), n))

keyphrase_candidates(text) ==
    LET tokens == normalise_text(TOKEN_PATTERN_findall(text))
    IN  FirstN(SelectSeq(tokens, LAMBDA token : token \notin STOPWORDS /\ Len(token) >= 3), 7)

RECURSIVE iter_domain_terms_loop(_, _)
iter_domain_terms_loop(terms, ordered) ==
    IF terms = <<>> THEN ordered
    ELSE iter_domain_terms_loop(Tail(terms),
                                IF Lower(Head(terms)) \in Range(ordered)
                                THEN ordered ELSE Append(ordered, Lower(Head(terms))))

iter_domain_terms(terms) == iter_domain_terms_loop(terms, <<>>)

evidence_strength(text, stakeholder) ==
    LET lowered == normalise_text(text)
    IN  IF \E kw \in {"must", "required", "blocked", "regulatory"} : SubstringOf(kw, lowered) THEN 2
        ELSE IF stakeholder # <<>> THEN 2
        ELSE IF \E kw \in {"need", "should", "struggle", "difficult"} : SubstringOf(kw, lowered) THEN 1
        ELSE 0

\* normalise_problem up to the constructor call, for a text without cue
\* phrases: the outcome and barrier defaults, the whole text as value intent.
normalise_problem(problem) ==
    NormalisedProblem(problem.problem_id,
                      IF problem.stakeholder # <<>> THEN problem.stakeholder ELSE <<"Stakeholder">>,
                      <<"desired", "outcome">>,
                      <<"an", "unspecified", "barrier">>,
                      problem.text,
                      iter_domain_terms(keyphrase_candidates(problem.text)),
                      evidence_strength(problem.text, problem.stakeholder))

GOVERNANCE_KEYWORDS ==
    {"audit", "auditable", "policy", "control", "governance", "approval", "workflow",
     "compliance", "lineage", "role", "security", "permission", "access"}

governance_signal(text) ==
    LET lowered == normalise_text(text)
    IN  IF \E keyword \in {"policy", "audit", "governance", "lineage"} : SubstringOf(keyword, lowered)
        THEN 2
        ELSE IF \E keyword \in GOVERNANCE_KEYWORDS : SubstringOf(keyword, lowered) THEN 1
        ELSE 0

\* "i need" in story.text.lower(): the two words side by side.
HasINeed(text) ==
    \E k \in 1..(Len(text) - 1) : Lower(text[k]) = "i" /\ Lower(text[k + 1]) = "need"

\* The positions where the pattern "i need to ([^.,]+)" matches: the three
\* words followed by at least one more.
NeedMatches(text) ==
    {k \in 1..(Len(text) - 3) :
        Lower(text[k]) = "i" /\ Lower(text[k + 1]) = "need" /\ Lower(text[k + 2]) = "to"}

Minimum(S) == CHOOSE x \in S : \A y \in S : x <= y

\* parse_story for a text without commas, which STORY_PATTERN cannot match.
parse_story(story) ==
    LET capability ==
            IF HasINeed(story.text) /\ NeedMatches(story.text) # {}
            THEN SubSeq(story.text, Minimum(NeedMatches(story.text)) + 3, Len(story.text))
            ELSE story.text
        functional_outcome == capability
        business_value == capability
    IN  ParsedStory(story.story_id, story.text, <<"Stakeholder">>, capability, business_value,
                    iter_domain_terms(keyphrase_candidates(capability \o functional_outcome)),
                    governance_signal(story.text))

parse_stories(raw) == [k \in DOMAIN raw |-> parse_story(raw[k])]

RawProblemPool ==
    {RawProblem("P1", <<"slow", "reports">>, <<>>),
     RawProblem("P2", <<"audit", "trail", "missing">>, <<"auditor">>)}

RawStoryPool ==
    {RawStory("S1", <<"audit", "trail", "reports">>),
     RawStory("S2", <<"faster", "reports">>),
     RawStory("S3", <<"i", "need", "to", "export", "audit", "reports">>),
     RawStory("S4", <<"we", "need", "controls">>)}

InitRun ==
    /\ problems \in SeqUpTo(RawProblemPool, MaxProblems)
    /\ stories \in SeqUpTo(RawStoryPool, MaxStories)
    /\ config = AgentConfig
    /\ pairs = <<>>
    /\ edges = <<>>
    /\ summaries = <<>>
    /\ pc = "normalise"
    /\ clock = 0
    /\ run = 1
    /\ prev_edges = <<>>
    /\ prev_summaries = <<>>

\* normalise_problems: the first constructor call that raises ends the run.
NormaliseProblems ==
    /\ pc = "normalise"
    /\ IF problems = <<>>
          \/ dataclass_init_accepts(NormalisedProblemFields, NormalisedProblemRequired,
                                    normalise_problem_keywords)
       THEN /\ problems' = [k \in DOMAIN problems |-> normalise_problem(problems[k])]
            /\ pc' = "parse"
       ELSE /\ pc' = "TypeError"
            /\ UNCHANGED problems
    /\ UNCHANGED <<stories, config, pairs, edges, summaries, clock, run, prev_edges, prev_summaries>>

ParseStories ==
    /\ pc = "parse"
    /\ stories' = parse_stories(stories)
    /\ pc' = "propose"
    /\ UNCHANGED <<problems, config, pairs, edges, summaries, clock, run, prev_edges, prev_summaries>>

\* The four writers: the run ends with its files written.
WriteOutputs ==
    /\ pc = "done"
    /\ pc' = "written"
    /\ UNCHANGED <<problems, stories, config, pairs, edges, summaries, clock, run, prev_edges, prev_summaries>>

NextRun ==
    \/ NormaliseProblems
    \/ ParseStories
    \/ ProposePairs
    \/ ScorePairs
    \/ CoverageSummaries
    \/ WriteOutputs

SpecRun == InitRun /\ [][NextRun]_vars

\* C16: run_pipeline on well-formed files with at least one problem runs every
\* stage to completion without raising; normalise_problem constructs a
\* NormalisedProblem for every raw problem.
C16_PipelineNeverRaises == pc # "TypeError"

(***************************************************************************)
(* Default thresholds: the Medium band and the borderline band (Spec).     *)
(***************************************************************************)
DefaultThresholds == config.threshold = ThresholdConfig

\* The band the thresholds alone give, before the evidence downgrade.
ThresholdBand(total) ==
    IF total >= config.threshold.high_confidence THEN "High"
    ELSE IF total >= config.threshold.medium_confidence THEN "Medium"
    ELSE IF total > 0 THEN "Low"
    ELSE "None"

\* C17: with the default thresholds and evidence_strength in {0, 1, 2} the
\* downgrade changes no band; every Medium edge has 8 <= total_score <= 11 and
\* the flag borderline_medium, and every problem owning a Medium edge is
\* escalated with the reason borderline_medium.
C17_DefaultMediumIsBorderline ==
    (Done /\ DefaultThresholds) =>
        \A k \in DOMAIN edges :
            /\ edges[k].confidence_band = ThresholdBand(edges[k].total_score)
            /\ edges[k].confidence_band = "Medium" =>
                   /\ 8 <= edges[k].total_score
                   /\ edges[k].total_score <= 11
                   /\ "borderline_medium" \in Range(edges[k].flags)
                   /\ SummariesOf(edges[k].problem_id) # {}
                   /\ \A s \in SummariesOf(edges[k].problem_id) :
                          /\ summaries[s].escalate
                          /\ "borderline_medium" \in Range(summaries[s].escalate_reasons)

\* A problem without evidence owns a High edge, which the downgrade branch
\* examined and kept, and a lower Medium edge that escalates its summary.
C17_Witness ==
    /\ Done
    /\ DefaultThresholds
    /\ \E a, b \in DOMAIN edges :
           /\ edges[a].problem_id = edges[b].problem_id
           /\ edges[a].scores.evidence_strength_transfer = 0
           /\ edges[a].confidence_band = "High"
           /\ edges[b].confidence_band = "Medium"
           /\ \E s \in SummariesOf(edges[b].problem_id) :
                  /\ summaries[s].best_confidence = "High"
                  /\ "borderline_medium" \in Range(summaries[s].escalate_reasons)

(***************************************************************************)
(* The reason high_with_low_evidence and the flag high_needs_review (Spec).*)
(***************************************************************************)
DistinctProblemIds ==
    \A a, b \in DOMAIN problems : problems[a].problem_id = problems[b].problem_id => a = b

\* C18: over problems with pairwise distinct problem_ids, a summary's
\* escalate_reasons holds high_with_low_evidence iff at least one edge of that
\* problem carries the flag high_needs_review.
C18_HighWithLowEvidence ==
    (Done /\ DistinctProblemIds) =>
        \A s \in DOMAIN summaries :
            ("high_with_low_evidence" \in Range(summaries[s].escalate_reasons))
                <=> (\E k \in EdgesOf(summaries[s].problem_id) :
                         "high_needs_review" \in Range(edges[k].flags))

\* A summary with the reason whose group holds a flagged edge of a problem
\* with evidence 1 next to an edge without the flag.
C18_Witness ==
    /\ Done
    /\ DistinctProblemIds
    /\ \E s \in DOMAIN summaries :
           /\ "high_with_low_evidence" \in Range(summaries[s].escalate_reasons)
           /\ \E a, b \in EdgesOf(summaries[s].problem_id) :
                  /\ "high_needs_review" \in Range(edges[a].flags)
                  /\ edges[a].scores.evidence_strength_transfer = 1
                  /\ "high_needs_review" \notin Range(edges[b].flags)

(***************************************************************************)
(* residual_gaps and no_full_coverage (Spec).                              *)
(***************************************************************************)
HasReason(sm, reason) == reason \in Range(sm.escalate_reasons)

\* C19: in every summary the reason residual_gaps implies the reason
\* no_full_coverage; the converse need not hold, the three essential facets
\* may be satisfied by different edges none of which is Full.
C19_ResidualGapsImplyNoFull ==
    Done =>
        \A s \in DOMAIN summaries :
            HasReason(summaries[s], "residual_gaps") => HasReason(summaries[s], "no_full_coverage")

\* One summary carries both reasons; another carries no_full_coverage alone,
\* its essential facets being met by different edges of its group.
C19_Witness ==
    /\ Done
    /\ \E s, t \in DOMAIN summaries :
           /\ HasReason(summaries[s], "residual_gaps")
           /\ HasReason(summaries[s], "no_full_coverage")
           /\ EdgesOf(summaries[s].problem_id) # {}
           /\ HasReason(summaries[t], "no_full_coverage")
           /\ ~HasReason(summaries[t], "residual_gaps")
           /\ \A f \in {"capability", "causal_root", "value"} :
                  \E k \in EdgesOf(summaries[t].problem_id) : edges[k].facet_coverage[f]
           /\ \A k \in EdgesOf(summaries[t].problem_id) :
                  \E f \in {"capability", "causal_root", "value"} : ~edges[k].facet_coverage[f]

(***************************************************************************)
(* score_pair on one pair, or score_pairs on the proposed pairs, followed   *)
(* by coverage_summaries on the edges.                                     *)
(***************************************************************************)
InitJudge ==
    \/ /\ problems \in {<<p>> : p \in PairProblems}
       /\ stories \in {<<s>> : s \in PairStories}
       /\ config \in {[threshold |-> t, governance_terms |-> DefaultGovernanceTerms] : t \in Thresholds}
       /\ Start
    \/ Init

SummariseDirect ==
    /\ pc = "scored"
    /\ summaries' = coverage_summaries(problems, edges)
    /\ pc' = "summarised"
    /\ UNCHANGED <<problems, stories, config, pairs, edges, clock, run, prev_edges, prev_summaries>>

NextJudge == ProposePairs \/ ScoreDirect \/ SummariseDirect \/ ScorePairs \/ CoverageSummaries

SpecJudge == InitJudge /\ [][NextJudge]_vars

Summarised == pc \in {"summarised", "done"}

\* C20: every edge labelled Full has total_score >= 4 and, under the default
\* thresholds, a band other than None; a summary has escalate = FALSE only if
\* some edge of its problem is Full.
C20_FullEdges ==
    Summarised =>
        /\ \A k \in DOMAIN edges :
               edges[k].coverage_label = "Full" =>
                   /\ edges[k].total_score >= 4
                   /\ DefaultThresholds => edges[k].confidence_band # "None"
        /\ \A s \in DOMAIN summaries :
               ~summaries[s].escalate =>
                   \E k \in EdgesOf(summaries[s].problem_id) : edges[k].coverage_label = "Full"

\* Under the default thresholds a Full edge carries the band Low, and the
\* summary of its group of two edges does not escalate.
C20_Witness ==
    /\ Summarised
    /\ DefaultThresholds
    /\ \E a, b \in DOMAIN edges, s \in DOMAIN summaries :
           /\ a # b
           /\ edges[a].problem_id = summaries[s].problem_id
           /\ edges[b].problem_id = summaries[s].problem_id
           /\ edges[a].coverage_label = "Full"
           /\ edges[a].confidence_band = "Low"
           /\ ~summaries[s].escalate
====
